---- MODULE Spec2Model ----
(***************************************************************************)
(* Phosphobot SO-101 HTTP client (phosphobot_client.py): parameter         *)
(* validation against a movement envelope, the retry/backoff loop of       *)
(* _request, and the classification of transport, HTTP and decoding        *)
(* failures.                                                               *)
(*                                                                         *)
(* Python values are records [t, n]: t is the Python type ("bool", "int",  *)
(* "float", "str"), or one of the three non-finite floats ("nan",          *)
(* "posinf", "neginf"); n is the numeric value.  Durations are in          *)
(* hundredths of a second.  Texts are sequences of characters.             *)
(***************************************************************************)
EXTENDS Integers, Sequences, FiniteSets, TLC

\* ------------------------------------------------------------------ bounds

\* Largest max_retries argument given to the constructor.
MaxRetriesArg == 7

\* Smallest max_retries argument given to the constructor is -MinRetriesArg.
MinRetriesArg == 1

\* --------------------------------------------------------- python values

None == <<>>

Int_(k) == [t |-> "int", n |-> k]

Float(k) == [t |-> "float", n |-> k]

Bool(k) == [t |-> "bool", n |-> k]

NaN == [t |-> "nan", n |-> 0]

PosInf == [t |-> "posinf", n |-> 0]

NegInf == [t |-> "neginf", n |-> 0]

Str == [t |-> "str", n |-> 0]

\* isinstance(value, bool)
is_bool(value) == value.t = "bool"

\* isinstance(value, int): bool is a subclass of int
is_int(value) == value.t \in {"int", "bool"}

\* isinstance(value, (int, float))
is_int_or_float(value) == value.t \in {"int", "bool", "float", "nan", "posinf", "neginf"}

\* float(value): an int becomes the float of the same value, a float is kept
float(value) == IF value.t \in {"int", "bool"} THEN Float(value.n) ELSE value

\* math.isfinite(numeric_value)
isfinite(value) == value.t = "float"

\* ------------------------------------------------------------- envelopes

PoseAxes == <<"x_cm", "y_cm", "z_cm", "roll_deg", "pitch_deg", "yaw_deg">>

PoseAxisSet == {PoseAxes[i] : i \in 1..Len(PoseAxes)}

\* MovementLimits(): the default envelope
MovementLimits ==
  [x_cm |-> <<-80, 80>>, y_cm |-> <<-80, 80>>, z_cm |-> <<0, 90>>,
   roll_deg |-> <<-180, 180>>, pitch_deg |-> <<-180, 180>>,
   yaw_deg |-> <<-180, 180>>, grip |-> <<0, 100>>]

\* An envelope with no pose range configured and a narrower grip range.
OpenLimits ==
  [x_cm |-> None, y_cm |-> None, z_cm |-> None, roll_deg |-> None,
   pitch_deg |-> None, yaw_deg |-> None, grip |-> <<40, 60>>]

\* MovementLimits is a plain frozen dataclass: it stores whatever pair it is
\* given, also one with min > max.
InvertedPoseLimits == [MovementLimits EXCEPT !.z_cm = <<20, 10>>]

InvertedGripLimits == [OpenLimits EXCEPT !.grip = <<60, 40>>]

Envelopes == {MovementLimits, OpenLimits, InvertedPoseLimits, InvertedGripLimits}

\* The limits given to the constructor (None: the default envelope).
ConstructorLimits == {None, OpenLimits, InvertedPoseLimits}

\* The limits given to one move_absolute call (None: no override).
CallLimits == {None, MovementLimits, InvertedGripLimits}

\* MovementLimits.get_range
get_range(limits, axis) == limits[axis]

\* ------------------------------------------------------------- validator

Ok(v) == [ok |-> TRUE, value |-> v, field |-> "", reason |-> ""]

ValidationError(field, reason) ==
  [ok |-> FALSE, value |-> None, field |-> field, reason |-> reason]

\* _validate_numeric with the lower bound excluded
_validate_numeric_strict(name, value, value_range) ==
  IF is_bool(value) \/ ~is_int_or_float(value)
    THEN ValidationError(name, "type")
  ELSE IF ~isfinite(float(value))
    THEN ValidationError(name, "finite")
  ELSE IF value_range # None
          /\ (float(value).n <= value_range[1] \/ float(value).n > value_range[2])
    THEN ValidationError(name, "range")
  ELSE Ok(float(value))

\* _validate_numeric with the finiteness test made part of the range test
_validate_numeric_ranged_finite(name, value, value_range) ==
  IF is_bool(value) \/ ~is_int_or_float(value)
    THEN ValidationError(name, "type")
  ELSE IF value_range # None /\ ~isfinite(float(value))
    THEN ValidationError(name, "finite")
  ELSE IF value_range # None /\ isfinite(float(value))
          /\ (float(value).n < value_range[1] \/ float(value).n > value_range[2])
    THEN ValidationError(name, "range")
  ELSE Ok(float(value))

_validate_numeric(name, value, value_range) ==
  IF is_bool(value) \/ ~is_int_or_float(value)
    THEN ValidationError(name, "type")
  ELSE IF ~isfinite(float(value))
    THEN ValidationError(name, "finite")
  ELSE IF value_range # None
          /\ (float(value).n < value_range[1] \/ float(value).n > value_range[2])
    THEN ValidationError(name, "range")
  ELSE Ok(float(value))

\* _validate_grip without the bool test
_validate_grip_bool(grip, grip_range) ==
  IF ~is_int(grip)
    THEN ValidationError("grip", "type")
  ELSE IF grip.n < grip_range[1] \/ grip.n > grip_range[2]
    THEN ValidationError("grip", "range")
  ELSE Ok(grip)

_validate_grip(grip, grip_range) ==
  IF is_bool(grip) \/ ~is_int(grip)
    THEN ValidationError("grip", "type")
  ELSE IF grip.n < grip_range[1] \/ grip.n > grip_range[2]
    THEN ValidationError("grip", "range")
  ELSE Ok(grip)

\* The payload built so far, with the next pose axis validated into it; the
\* first failure is raised through.
RECURSIVE validate_axes(_, _, _)
validate_axes(i, cmd, limits) ==
  IF i = 0 THEN Ok(<<>>)
  ELSE LET before == validate_axes(i - 1, cmd, limits)
           axis == PoseAxes[i]
           this == _validate_numeric(axis, cmd[axis], get_range(limits, axis))
       IN IF ~before.ok THEN before
          ELSE IF ~this.ok THEN this
          ELSE Ok(before.value @@ (axis :> this.value))

\* _validate_move with the grip checked before the pose
_validate_move_grip_first(cmd, limits) ==
  LET pose == validate_axes(Len(PoseAxes), cmd, limits)
      grip == _validate_grip(cmd.grip, limits.grip)
  IN IF ~grip.ok THEN grip
     ELSE IF ~pose.ok THEN pose
     ELSE Ok(pose.value @@ ("grip" :> grip.value))

_validate_move(cmd, limits) ==
  LET pose == validate_axes(Len(PoseAxes), cmd, limits)
      grip == _validate_grip(cmd.grip, limits.grip)
  IN IF ~pose.ok THEN pose
     ELSE IF ~grip.ok THEN grip
     ELSE Ok(pose.value @@ ("grip" :> grip.value))

\* ------------------------------------------------------------------ texts

IsSpace(c) == c \in {" ", "\t", "\n", "\r"}

RECURSIVE lstrip(_)
lstrip(text) ==
  IF text # <<>> /\ IsSpace(Head(text)) THEN lstrip(Tail(text)) ELSE text

RECURSIVE rstrip(_)
rstrip(text) ==
  IF text # <<>> /\ IsSpace(text[Len(text)])
    THEN rstrip(SubSeq(text, 1, Len(text) - 1))
    ELSE text

\* str.strip()
strip(text) == rstrip(lstrip(text))

\* text[:k]
prefix(text, k) == SubSeq(text, 1, IF Len(text) < k THEN Len(text) ELSE k)

\* Length of the raw-body excerpt used as an error message.
SnippetLen == 200

GenericMessage ==
  <<"P", "h", "o", "s", "p", "h", "o", "b", "o", "t", " ", "A", "P", "I", " ",
    "r", "e", "t", "u", "r", "n", "e", "d", " ", "a", "n", " ", "e", "r", "r",
    "o", "r", ".">>

TransportMessage ==
  <<"T", "r", "a", "n", "s", "p", "o", "r", "t", " ", "e", "r", "r", "o", "r",
    " ", "t", "a", "l", "k", "i", "n", "g", " ", "t", "o", " ", "P", "h", "o",
    "s", "p", "h", "o", "b", "o", "t", " ", "A", "P", "I", ".">>

\* ------------------------------------------------------- response bodies

TextStatusMoved ==
  <<"{", "\"", "s", "t", "a", "t", "u", "s", "\"", ":", "\"", "m", "o", "v",
    "e", "d", "\"", "}">>

TextErrorInternal ==
  <<"{", "\"", "e", "r", "r", "o", "r", "\"", ":", "\"", "i", "n", "t", "e",
    "r", "n", "a", "l", "\"", "}">>

TextMessageNumber ==
  <<"{", "\"", "m", "e", "s", "s", "a", "g", "e", "\"", ":", "5", ",", "\"",
    "d", "e", "t", "a", "i", "l", "\"", ":", "\"", "d", "\"", "}">>

TextMessageError ==
  <<"{", "\"", "m", "e", "s", "s", "a", "g", "e", "\"", ":", "\"", "m", "\"",
    ",", "\"", "e", "r", "r", "o", "r", "\"", ":", "\"", "e", "\"", "}">>

TextCode == <<"{", "\"", "c", "o", "d", "e", "\"", ":", "1", "}">>

TextArray == <<"[", "1", "]">>

TextScalar == <<"7">>

TextEmpty == <<>>

TextOops == <<" ", "o", "o", "p", "s", " ">>

\* Two blanks, then more non-blank characters than an excerpt holds.
TextLong == [i \in 1..(SnippetLen + 3) |-> IF i <= 2 THEN " " ELSE "a"]

Texts ==
  {TextStatusMoved, TextErrorInternal, TextMessageNumber, TextMessageError,
   TextCode, TextArray, TextScalar, TextEmpty, TextOops, TextLong}

JsonStr(chars) == [t |-> "str", s |-> chars]

JsonNum(chars) == [t |-> "int", s |-> chars]

Dict(items) == [kind |-> "dict", items |-> items]

Returns(v) == [raises |-> {}, value |-> v]

Raises(classes) == [raises |-> classes, value |-> None]

\* What a failed decode raises: json.JSONDecodeError, a ValueError; since
\* requests 2.27 requests.exceptions.JSONDecodeError, which is a ValueError
\* and a RequestException.
JSONDecodeErrors == {{"ValueError"}, {"ValueError", "RequestException"}}

\* response.json() of a body: the possible outcomes of the call
json(text) ==
  CASE text = TextStatusMoved ->
         {Returns(Dict([status |-> JsonStr(<<"m", "o", "v", "e", "d">>)]))}
    [] text = TextErrorInternal ->
         {Returns(Dict([error |-> JsonStr(<<"i", "n", "t", "e", "r", "n", "a", "l">>)]))}
    [] text = TextMessageNumber ->
         {Returns(Dict([message |-> JsonNum(<<"5">>), detail |-> JsonStr(<<"d">>)]))}
    [] text = TextMessageError ->
         {Returns(Dict([message |-> JsonStr(<<"m">>), error |-> JsonStr(<<"e">>)]))}
    [] text = TextCode ->
         {Returns(Dict([code |-> JsonNum(<<"1">>)]))}
    [] text = TextArray ->
         {Returns([kind |-> "list", items |-> <<JsonNum(<<"1">>)>>])}
    [] text = TextScalar ->
         {Returns([kind |-> "int", items |-> <<>>])}
    [] OTHER -> {Raises(c) : c \in JSONDecodeErrors}

StatusCodes == {200, 400, 500}

\* What one session.request(...) call does: raises requests.Timeout, raises
\* another requests.RequestException, or returns a response.
Timeout == [raises |-> {"Timeout", "RequestException"}]

ConnectionError == [raises |-> {"RequestException"}]

Responses ==
  UNION {{[raises |-> {}, status_code |-> c, text |-> b, json |-> j] :
            c \in StatusCodes, j \in json(b)} : b \in Texts}

Attempts == {Timeout, ConnectionError} \cup Responses

\* ---------------------------------------------------------------- backoff

\* base_delay, 0.25 s
BaseDelay == 25

\* the cap, 5.0 s
MaxDelay == 500

RECURSIVE Pow2(_)
Pow2(k) == IF k <= 0 THEN 1 ELSE 2 * Pow2(k - 1)

\* _backoff_delay without the cap
_backoff_delay_uncapped(attempt) == BaseDelay * Pow2(attempt - 1)

\* _backoff_delay with the exponent one too high
_backoff_delay_next(attempt) ==
  LET delay == BaseDelay * Pow2(attempt)
  IN IF delay < MaxDelay THEN delay ELSE MaxDelay

_backoff_delay(attempt) ==
  LET delay == BaseDelay * Pow2(attempt - 1)
  IN IF delay < MaxDelay THEN delay ELSE MaxDelay

\* ---------------------------------------------------------- error message

MessageKeys == <<"message", "error", "detail", "reason">>

\* The for loop over the keys, from the i-th on: the index of the first key
\* the payload holds a string for, or 0.
RECURSIVE first_string(_, _, _)
first_string(keys, i, payload) ==
  IF i > Len(keys) THEN 0
  ELSE IF keys[i] \in DOMAIN payload /\ payload[keys[i]].t = "str" THEN i
  ELSE first_string(keys, i + 1, payload)

\* The same loop without the isinstance(payload[key], str) test.
RECURSIVE first_present(_, _, _)
first_present(keys, i, payload) ==
  IF i > Len(keys) THEN 0
  ELSE IF keys[i] \in DOMAIN payload THEN i
  ELSE first_present(keys, i + 1, payload)

\* _extract_error_message returning the first of the keys that is present
_extract_error_message_any_type(response) ==
  LET found == IF response.json.raises = {} /\ response.json.value.kind = "dict"
                 THEN first_present(MessageKeys, 1, response.json.value.items)
                 ELSE 0
      text == strip(response.text)
  IN IF found # 0 THEN response.json.value.items[MessageKeys[found]].s
     ELSE IF text # <<>> THEN prefix(text, SnippetLen)
     ELSE GenericMessage

\* The ValueError of response.json() is passed over (except ValueError: pass).
_extract_error_message(response) ==
  LET found == IF response.json.raises = {} /\ response.json.value.kind = "dict"
                 THEN first_string(MessageKeys, 1, response.json.value.items)
                 ELSE 0
      text == strip(response.text)
  IN IF found # 0 THEN response.json.value.items[MessageKeys[found]].s
     ELSE IF text # <<>> THEN prefix(text, SnippetLen)
     ELSE GenericMessage

\* ------------------------------------------------------------- exceptions

HTTPError(status_code, message, response_body) ==
  [kind |-> "HTTPError", status_code |-> status_code, message |-> message,
   response_body |-> response_body]

TimeoutError(message) == [kind |-> "TimeoutError", message |-> message]

ResponseDecodeError(message) == [kind |-> "ResponseDecodeError", message |-> message]

Returned(payload) == [kind |-> "returned", payload |-> payload]

\* The try body with the response_body of an HTTPError cut like the message
try_body_capped_body(done) ==
  IF done.raises # {}
    THEN [raises |-> done.raises, value |-> None]
  ELSE IF done.status_code >= 400
    THEN [raises |-> {"HTTPError"},
          value |-> HTTPError(done.status_code, _extract_error_message(done),
                              prefix(done.text, SnippetLen))]
  ELSE IF done.json.raises # {}
    THEN [raises |-> done.json.raises, value |-> None]
  ELSE IF done.json.value.kind # "dict"
    THEN [raises |-> {"ResponseDecodeError"}, value |-> ResponseDecodeError("not an object")]
  ELSE [raises |-> {}, value |-> Returned(done.json.value)]

\* The try body of one attempt, given what session.request did: the classes of
\* the exception it raises (none when it returns) and the value raised or
\* returned.
try_body(done) ==
  IF done.raises # {}
    THEN [raises |-> done.raises, value |-> None]
  ELSE IF done.status_code >= 400
    THEN [raises |-> {"HTTPError"},
          value |-> HTTPError(done.status_code, _extract_error_message(done), done.text)]
  ELSE IF done.json.raises # {}
    THEN [raises |-> done.json.raises, value |-> None]
  ELSE IF done.json.value.kind # "dict"
    THEN [raises |-> {"ResponseDecodeError"}, value |-> ResponseDecodeError("not an object")]
  ELSE [raises |-> {}, value |-> Returned(done.json.value)]

\* The except clauses with HTTPError caught by the retrying clause
except_clause_retry_http(classes) ==
  IF "Timeout" \in classes \/ "HTTPError" \in classes THEN "requests.Timeout"
  ELSE IF "ResponseDecodeError" \in classes THEN "ResponseDecodeError"
  ELSE IF "RequestException" \in classes THEN "requests.RequestException"
  ELSE IF "ValueError" \in classes THEN "ValueError"
  ELSE "none"

\* The except clause that catches an exception of these classes: the first in
\* the order written.
except_clause(classes) ==
  IF "Timeout" \in classes THEN "requests.Timeout"
  ELSE IF "HTTPError" \in classes THEN "HTTPError"
  ELSE IF "ResponseDecodeError" \in classes THEN "ResponseDecodeError"
  ELSE IF "RequestException" \in classes THEN "requests.RequestException"
  ELSE IF "ValueError" \in classes THEN "ValueError"
  ELSE "none"

\* attempt > self.max_retries
retries_exhausted_late(attempt, max_retries) == attempt > max_retries

\* attempt >= self.max_retries, one attempt early
retries_exhausted_early(attempt, max_retries) == attempt + 1 >= max_retries

\* attempt >= self.max_retries
retries_exhausted(attempt, max_retries) == attempt >= max_retries

\* ------------------------------------------------------------------ state

VARIABLES
  max_retries_arg,  \* the max_retries given to the constructor
  self,             \* the client: base_url, max_retries, _limits
  pc,               \* "idle", "request" (a request is in flight), "sleep", "returned", "raised"
  call,             \* the operation in progress and its arguments
  request,          \* method, url and json of the request of this call
  attempt,          \* _request's attempt counter
  sent,             \* the requests handed to session.request in this call
  done,             \* what session.request did, per attempt of this call
  slept,            \* the delays handed to time.sleep in this call
  result,           \* the value returned or the exception raised by the call
  scope,            \* the with statement around the client: "none", "entered", "exited"
  closes,           \* the number of self._session.close() calls
  suspended         \* the locals of a second call on this client, while it does not run

vars ==
  <<max_retries_arg, self, pc, call, request, attempt, sent, done, slept, result,
    scope, closes, suspended>>

\* What no step of the running call changes: the configuration, the session
\* and the locals of another call.
client == <<max_retries_arg, self, scope, closes, suspended>>

\* The locals of a call that has not begun.
NoCall ==
  [pc |-> "idle", call |-> None, request |-> None, attempt |-> 0, sent |-> <<>>,
   done |-> <<>>, slept |-> <<>>, result |-> None]

\* timeout_sec: float = 5.0
TimeoutSec == 500

DEFAULT_BASE_URL == <<"http://localhost">>

\* path.lstrip("/")
RECURSIVE lstrip_slash(_)
lstrip_slash(path) ==
  IF path # <<>> /\ Head(path) = "/" THEN lstrip_slash(Tail(path)) ELSE path

\* _build_url
_build_url(base_url, path) == base_url \o <<"/">> \o lstrip_slash(path)

\* method.upper()
upper(method) == IF method = "post" THEN "POST" ELSE method

\* max_retries if max_retries >= 0 else 1
clamp_from_zero(max_retries) == IF max_retries >= 0 THEN max_retries ELSE 1

\* max_retries if max_retries >= 1 else 1
clamp(max_retries) == IF max_retries >= 1 THEN max_retries ELSE 1

\* PhosphobotClient.__init__
Init ==
  /\ max_retries_arg \in (0 - MinRetriesArg)..MaxRetriesArg
  /\ \E limits \in ConstructorLimits :
       self = [base_url |-> DEFAULT_BASE_URL,
               timeout_sec |-> TimeoutSec,
               max_retries |-> clamp(max_retries_arg),
               _limits |-> IF limits # None THEN limits ELSE MovementLimits]
  /\ scope = "none"
  /\ closes = 0
  /\ suspended = NoCall
  /\ pc = "idle"
  /\ call = None
  /\ request = None
  /\ attempt = 0
  /\ sent = <<>>
  /\ done = <<>>
  /\ slept = <<>>
  /\ result = None

\* The loop head counting the first attempt only
while_head_uncounted_retry(req) ==
  IF attempt < self.max_retries
    THEN /\ attempt' = (IF attempt = 0 THEN 1 ELSE attempt)
         /\ sent' = Append(sent, req)
         /\ pc' = "request"
         /\ result' = result
    ELSE /\ attempt' = attempt
         /\ sent' = sent
         /\ pc' = "raised"
         /\ result' = TimeoutError("after maximum retries")

\* The loop head sending a retry without the payload
while_head_bare_retry(req) ==
  IF attempt < self.max_retries
    THEN /\ attempt' = attempt + 1
         /\ sent' = Append(sent, IF attempt = 0 THEN req ELSE [req EXCEPT !.json = None])
         /\ pc' = "request"
         /\ result' = result
    ELSE /\ attempt' = attempt
         /\ sent' = sent
         /\ pc' = "raised"
         /\ result' = TimeoutError("after maximum retries")

\* The head of the while loop: the next attempt is sent, or the loop ends and
\* the raise after it is reached.
while_head(req) ==
  IF attempt < self.max_retries
    THEN /\ attempt' = attempt + 1
         /\ sent' = Append(sent, req)
         /\ pc' = "request"
         /\ result' = result
    ELSE /\ attempt' = attempt
         /\ sent' = sent
         /\ pc' = "raised"
         /\ result' = TimeoutError("after maximum retries")

\* _request, up to the first session.request
_request(method, path, payload) ==
  LET req == [method |-> upper(method), url |-> _build_url(self.base_url, path),
              json |-> payload, timeout |-> self.timeout_sec]
  IN /\ request' = req
     /\ while_head(req)
     /\ UNCHANGED <<done, slept>>

PathInit == <<"/", "move", "/", "init">>

PathAbsolute == <<"/", "move", "/", "absolute">>

\* move_init passing a fixed pose through the validator first
move_init_validating ==
  LET payload == _validate_move([x_cm |-> Float(25), y_cm |-> Float(0), z_cm |-> Float(15),
                                 roll_deg |-> Float(0), pitch_deg |-> Float(-30),
                                 yaw_deg |-> Float(0), grip |-> Int_(50)], self._limits)
  IN /\ pc = "idle"
     /\ call' = [op |-> "move_init", cmd |-> None, limits |-> None]
     /\ IF payload.ok
          THEN _request("POST", PathInit, None)
          ELSE /\ pc' = "raised"
               /\ result' = [kind |-> "ValidationError", field |-> payload.field,
                             reason |-> payload.reason]
               /\ UNCHANGED <<request, attempt, sent, done, slept>>
     /\ UNCHANGED client

move_init ==
  /\ pc = "idle"
  /\ call' = [op |-> "move_init", cmd |-> None, limits |-> None]
  /\ _request("POST", PathInit, None)
  /\ UNCHANGED client

\* move_absolute sending the command as given when the envelope rejects it
move_absolute_unchecked(cmd, limits) ==
  LET active_limits == IF limits # None THEN limits ELSE self._limits
      payload == _validate_move(cmd, active_limits)
  IN /\ pc = "idle"
     /\ call' = [op |-> "move_absolute", cmd |-> cmd, limits |-> limits]
     /\ _request("POST", PathAbsolute, IF payload.ok THEN payload.value ELSE cmd)
     /\ UNCHANGED client

\* move_absolute keeping the envelope given to the call as the client's own
move_absolute_keeping_override(cmd, limits) ==
  LET active_limits == IF limits # None THEN limits ELSE self._limits
      payload == _validate_move(cmd, active_limits)
  IN /\ pc = "idle"
     /\ call' = [op |-> "move_absolute", cmd |-> cmd, limits |-> limits]
     /\ IF payload.ok
          THEN _request("POST", PathAbsolute, payload.value)
          ELSE /\ pc' = "raised"
               /\ result' = [kind |-> "ValidationError", field |-> payload.field,
                             reason |-> payload.reason]
               /\ UNCHANGED <<request, attempt, sent, done, slept>>
     /\ self' = [self EXCEPT !._limits = active_limits]
     /\ UNCHANGED <<max_retries_arg, scope, closes, suspended>>

move_absolute(cmd, limits) ==
  LET active_limits == IF limits # None THEN limits ELSE self._limits
      payload == _validate_move(cmd, active_limits)
  IN /\ pc = "idle"
     /\ call' = [op |-> "move_absolute", cmd |-> cmd, limits |-> limits]
     /\ IF payload.ok
          THEN _request("POST", PathAbsolute, payload.value)
          ELSE /\ pc' = "raised"
               /\ result' = [kind |-> "ValidationError", field |-> payload.field,
                             reason |-> payload.reason]
               /\ UNCHANGED <<request, attempt, sent, done, slept>>
     /\ UNCHANGED client

\* session.request returns or raises, and _request handles it: up to its
\* return, its raise, or its call of time.sleep.
session_request(did) ==
  LET tried == try_body(did)
      clause == except_clause(tried.raises)
  IN /\ pc = "request"
     /\ done' = Append(done, did)
     /\ IF tried.raises = {}
          THEN /\ pc' = "returned"
               /\ result' = tried.value
               /\ slept' = slept
        ELSE IF clause = "requests.Timeout" /\ ~retries_exhausted(attempt, self.max_retries)
          THEN IF attempt < self.max_retries
                 THEN /\ pc' = "sleep"
                      /\ slept' = Append(slept, _backoff_delay(attempt))
                      /\ result' = result
                 ELSE /\ pc' = "loop"
                      /\ slept' = slept
                      /\ result' = result
        ELSE /\ pc' = "raised"
             /\ slept' = slept
             /\ result' =
                  CASE clause = "requests.Timeout" -> TimeoutError("timed out repeatedly")
                    [] clause = "HTTPError" -> tried.value
                    [] clause = "ResponseDecodeError" -> tried.value
                    [] clause = "requests.RequestException" ->
                         HTTPError(-1, TransportMessage, None)
                    [] clause = "ValueError" -> ResponseDecodeError("not valid JSON")
                    [] OTHER -> [kind |-> "Exception"]
     /\ UNCHANGED <<client, call, request, attempt, sent>>

\* time.sleep returns (or no sleep was due) and the loop goes round.
next_iteration ==
  /\ pc \in {"sleep", "loop"}
  /\ while_head(request)
  /\ UNCHANGED <<client, call, request, done, slept>>

\* The caller has the result; the client is ready for the next call.
call_ends ==
  /\ pc \in {"returned", "raised"}
  /\ pc' = "idle"
  /\ call' = None
  /\ request' = None
  /\ attempt' = 0
  /\ sent' = <<>>
  /\ done' = <<>>
  /\ slept' = <<>>
  /\ result' = None
  /\ UNCHANGED client

\* ----------------------------------------------------------------- inputs

\* examples/quick_start.py: move_absolute(25.0, 0.0, 15.0, 0.0, -30.0, 0.0, 50)
QuickStart ==
  [x_cm |-> Float(25), y_cm |-> Float(0), z_cm |-> Float(15), roll_deg |-> Float(0),
   pitch_deg |-> Float(-30), yaw_deg |-> Float(0), grip |-> Int_(50)]

NotFinite == {NaN, PosInf, NegInf}

\* Values around the ends of a range.
Around(range) ==
  IF range = None THEN {}
  ELSE {range[1] - 1, range[1], range[2], range[2] + 1}

PoseValues(axis) ==
  {Bool(1), Str} \cup NotFinite
    \cup UNION {{Float(n) : n \in Around(e[axis])} : e \in Envelopes}
    \cup UNION {{Int_(n) : n \in Around(e[axis])} : e \in {MovementLimits}}

GripValues ==
  {Bool(1), Str, Float(50), NaN, Int_(150)}
    \cup UNION {{Int_(n) : n \in Around(e.grip)} : e \in Envelopes}

\* The quick-start command with one argument replaced, and two commands with
\* several arguments out of range.
Commands ==
  {QuickStart}
    \cup UNION {{[QuickStart EXCEPT ![axis] = v] : v \in PoseValues(axis)} : axis \in PoseAxisSet}
    \cup {[QuickStart EXCEPT !.grip = v] : v \in GripValues}
    \cup {[QuickStart EXCEPT !.y_cm = NaN, !.roll_deg = Str, !.grip = Int_(150)],
          [QuickStart EXCEPT !.z_cm = Float(-1), !.x_cm = Float(81)]}

Next ==
  \/ move_init
  \/ \E cmd \in Commands, limits \in CallLimits : move_absolute(cmd, limits)
  \/ \E did \in Attempts : session_request(did)
  \/ next_iteration
  \/ call_ends

Spec == Init /\ [][Next]_vars

\* A call blocks its caller: session.request returns or raises within
\* timeout_sec, and time.sleep returns after the delay, so a call that is
\* under way takes its next step. Nothing obliges the caller to make a call.
SpecLive ==
  /\ Init
  /\ [][Next]_vars
  /\ WF_vars(\E did \in Attempts : session_request(did))
  /\ WF_vars(next_iteration)

\* ------------------------------------------------- two calls, one client

\* The locals of the running call.
running ==
  [pc |-> pc, call |-> call, request |-> request, attempt |-> attempt, sent |-> sent,
   done |-> done, slept |-> slept, result |-> result]

\* A switch with the attempt counter kept on the client and not in the call
switch_shared_attempt ==
  /\ suspended' = running
  /\ pc' = suspended.pc
  /\ call' = suspended.call
  /\ request' = suspended.request
  /\ attempt' = attempt
  /\ sent' = suspended.sent
  /\ done' = suspended.done
  /\ slept' = suspended.slept
  /\ result' = suspended.result
  /\ UNCHANGED <<max_retries_arg, self, scope, closes>>

\* The other thread runs: its call goes on with its own url, attempt and
\* json, and the call that ran keeps its own until it runs again.
switch ==
  /\ suspended' = running
  /\ pc' = suspended.pc
  /\ call' = suspended.call
  /\ request' = suspended.request
  /\ attempt' = suspended.attempt
  /\ sent' = suspended.sent
  /\ done' = suspended.done
  /\ slept' = suspended.slept
  /\ result' = suspended.result
  /\ UNCHANGED <<max_retries_arg, self, scope, closes>>

MaxInterleavedRetries == 3

InterleavedCommands ==
  {QuickStart, [QuickStart EXCEPT !.x_cm = Int_(80)], [QuickStart EXCEPT !.grip = Int_(150)]}

InterleavedAttempts ==
  {Timeout, ConnectionError}
    \cup {r \in Responses : r.status_code = 200 /\ r.text = TextStatusMoved}
    \cup {r \in Responses : r.status_code = 500 /\ r.text = TextErrorInternal}

InitInterleaved ==
  /\ Init
  /\ max_retries_arg \in 0..MaxInterleavedRetries
  /\ self._limits = MovementLimits

NextInterleaved ==
  \/ move_init
  \/ \E cmd \in InterleavedCommands : move_absolute(cmd, None)
  \/ \E did \in InterleavedAttempts : session_request(did)
  \/ next_iteration
  \/ call_ends
  \/ switch

\* Two threads calling one client, their steps interleaved in any order.
SpecInterleaved == InitInterleaved /\ [][NextInterleaved]_vars

\* ------------------------------------------------------------ scoped use

\* PhosphobotClient.close: self._session.close()
close == closes' = closes + 1

\* with PhosphobotClient(...) as client: the block is entered right after
\* construction.
__enter__ ==
  /\ scope = "none"
  /\ pc = "idle"
  /\ scope' = "entered"
  /\ UNCHANGED <<max_retries_arg, self, pc, call, request, attempt, sent, done, slept,
                 result, closes, suspended>>

\* __exit__ closing the session only when the block raised nothing
__exit___unless_raised ==
  /\ scope = "entered"
  /\ scope' = "exited"
  /\ IF pc = "raised" THEN closes' = closes ELSE close
  /\ UNCHANGED <<max_retries_arg, self, pc, call, request, attempt, sent, done, slept,
                 result, suspended>>

\* The with block is left: at its end, by a return after a call, by the
\* exception a call raised, or by an exception _request does not catch
\* while a request is in flight or the call sleeps.
__exit__ ==
  /\ scope = "entered"
  /\ scope' = "exited"
  /\ close
  /\ UNCHANGED <<max_retries_arg, self, pc, call, request, attempt, sent, done, slept,
                 result, suspended>>

\* The client used as so101ctl.main and examples/quick_start.py use it: all
\* calls inside one with block.
NextScoped ==
  \/ __enter__
  \/ scope = "entered" /\ move_init
  \/ scope = "entered" /\ \E cmd \in Commands, limits \in CallLimits : move_absolute(cmd, limits)
  \/ scope = "entered" /\ \E did \in Attempts : session_request(did)
  \/ scope = "entered" /\ next_iteration
  \/ scope = "entered" /\ call_ends
  \/ __exit__

SpecScoped == Init /\ [][NextScoped]_vars

\* ----------------------------------------------------------------- claims

\* The envelope a move_absolute call is validated against.
ActiveLimits == IF call.limits # None THEN call.limits ELSE self._limits

InMoveAbsolute == call # None /\ call.op = "move_absolute"

Failed(kind) == pc = "raised" /\ result.kind = kind

\* A finite number, given as an int or as a float.
IsFiniteNumber(v) == v.t \in {"int", "float"}

Within(n, range) == range[1] <= n /\ n <= range[2]

PoseFieldValid(v, range) == IsFiniteNumber(v) /\ (range = None \/ Within(v.n, range))

GripValid(v, range) == v.t = "int" /\ Within(v.n, range)

PoseValid(cmd, limits) == \A axis \in PoseAxisSet : PoseFieldValid(cmd[axis], limits[axis])

\* C1: validation of all seven fields is over before anything is sent: a
\* move_absolute call with an invalid field ends in a ValidationError with no
\* HTTP attempt made, and every payload handed to the session for
\* /move/absolute has each pose field finite and inside its configured range
\* and grip inside the grip range.
C1_ValidatedBeforeSent ==
  InMoveAbsolute =>
    /\ ~(PoseValid(call.cmd, ActiveLimits) /\ GripValid(call.cmd.grip, ActiveLimits.grip))
         => Failed("ValidationError")
    /\ (result # None /\ result.kind = "ValidationError")
         => attempt = 0 /\ sent = <<>> /\ done = <<>> /\ request = None
    /\ \A i \in 1..Len(sent) :
         /\ sent[i].url = DEFAULT_BASE_URL \o <<"/", "move", "/", "absolute">>
         /\ \A axis \in PoseAxisSet :
              /\ sent[i].json[axis].t = "float"
              /\ ActiveLimits[axis] # None => Within(sent[i].json[axis].n, ActiveLimits[axis])
         /\ GripValid(sent[i].json.grip, ActiveLimits.grip)

\* C1 witness: grip = 150 against the default envelope is refused and nothing
\* was sent.
C1_Witness ==
  /\ InMoveAbsolute
  /\ ActiveLimits = MovementLimits
  /\ call.cmd = [QuickStart EXCEPT !.grip = Int_(150)]
  /\ Failed("ValidationError")
  /\ sent = <<>>

\* C2: on a pose axis with a configured range (min, max), a value below min
\* or above max makes the call fail with a ValidationError; a value equal to
\* min or to max (of a range with min <= max) is accepted on that axis and
\* goes into the payload unchanged, as a float.
C2_PoseRangeInclusive ==
  InMoveAbsolute =>
    \A axis \in PoseAxisSet :
      LET range == ActiveLimits[axis]
          v == call.cmd[axis]
      IN (range # None /\ IsFiniteNumber(v)) =>
           /\ (v.n < range[1] \/ v.n > range[2]) => Failed("ValidationError")
           /\ (range[1] <= range[2] /\ v.n \in {range[1], range[2]}) =>
                /\ ~(Failed("ValidationError") /\ result.field = axis)
                /\ (\A other \in PoseAxisSet \ {axis} :
                      PoseFieldValid(call.cmd[other], ActiveLimits[other]))
                   /\ GripValid(call.cmd.grip, ActiveLimits.grip)
                     => /\ request # None
                        /\ request.json[axis] = [t |-> "float", n |-> v.n]

\* C2 witness: z_cm = 0, the minimum of the default range, given as an int,
\* was accepted and sent as the float 0.0.
C2_Witness ==
  /\ InMoveAbsolute
  /\ ActiveLimits = MovementLimits
  /\ call.cmd.z_cm = Int_(0)
  /\ pc = "request"
  /\ request.json.z_cm = Float(0)

\* C3: a pose value that is NaN, +Infinity or -Infinity makes the call fail
\* with a ValidationError under every envelope, also one that configures no
\* range for that axis.
C3_NonFiniteRejected ==
  InMoveAbsolute =>
    \A axis \in PoseAxisSet :
      call.cmd[axis].t \in {"nan", "posinf", "neginf"} =>
        Failed("ValidationError") /\ sent = <<>>

\* C3 witness: +Infinity on an axis the active envelope leaves unconfigured.
C3_Witness ==
  /\ InMoveAbsolute
  /\ ActiveLimits.x_cm = None
  /\ call.cmd.x_cm = PosInf
  /\ Failed("ValidationError")
  /\ result.field = "x_cm"

\* C4: a grip that is a bool or not an int makes the call fail with a
\* ValidationError, and so does an int below min or above max of the active
\* grip range; an int equal to min or to max (of a range with min <= max) is
\* accepted and sent as given.  With the default envelope 0 and 100 are
\* accepted, 150 and -1 refused.
C4_GripValidation ==
  InMoveAbsolute =>
    LET range == ActiveLimits.grip
        grip == call.cmd.grip
        pose_ok == PoseValid(call.cmd, ActiveLimits)
    IN /\ grip.t # "int" => Failed("ValidationError")
       /\ (grip.t = "int" /\ (grip.n < range[1] \/ grip.n > range[2]))
            => Failed("ValidationError")
       /\ (grip.t = "int" /\ range[1] <= range[2] /\ grip.n \in {range[1], range[2]})
            => /\ ~(Failed("ValidationError") /\ result.field = "grip")
               /\ pose_ok => request # None /\ request.json.grip = grip
       /\ (ActiveLimits = MovementLimits /\ grip \in {Int_(0), Int_(100)} /\ pose_ok)
            => request # None /\ request.json.grip = grip
       /\ (ActiveLimits = MovementLimits /\ grip \in {Int_(150), Int_(-1)})
            => Failed("ValidationError")

\* C4 witness: grip = 100 against the default envelope was accepted and sent.
C4_Witness ==
  /\ InMoveAbsolute
  /\ ActiveLimits = MovementLimits
  /\ call.cmd.grip = Int_(100)
  /\ pc = "request"
  /\ request.json.grip = Int_(100)

AllTimedOut == done # <<>> /\ \A i \in 1..Len(done) : done[i] = Timeout

\* C5: with N = max_retries attempts allowed and every attempt timing out, the
\* call makes exactly N attempts and N - 1 backoff sleeps, none after the last
\* attempt, and ends in a TimeoutError; before the N-th attempt it has not
\* ended.
C5_TimeoutRetries ==
  AllTimedOut =>
    /\ Len(done) <= self.max_retries
    /\ Len(done) < self.max_retries
         => /\ pc \in {"sleep", "request"}
            /\ Len(slept) = Len(done)
    /\ Len(done) = self.max_retries
         => /\ Failed("TimeoutError")
            /\ Len(sent) = self.max_retries
            /\ attempt = self.max_retries
            /\ Len(slept) = self.max_retries - 1

\* C5 witness: max_retries = 2, two attempts timed out, one sleep, TimeoutError.
C5_Witness ==
  /\ self.max_retries = 2
  /\ done = <<Timeout, Timeout>>
  /\ Len(sent) = 2
  /\ Len(slept) = 1
  /\ Failed("TimeoutError")

\* C6: a request timeout and a generic transport/connection failure are both
\* retried: on attempt n < max_retries the call goes on to attempt n + 1
\* after a backoff sleep, on attempt n = max_retries it ends in a
\* TimeoutError.
C6_TransportFailureRetried ==
  \A n \in 1..Len(done) :
    done[n] \in {Timeout, ConnectionError} =>
      IF n < self.max_retries
        THEN /\ Len(slept) >= n
             /\ pc = "sleep" \/ Len(sent) > n
        ELSE Failed("TimeoutError")

IsResponse(did) == did.raises = {}

NotJson(did) == IsResponse(did) /\ did.json.raises # {}

NotObject(did) == IsResponse(did) /\ did.json.raises = {} /\ did.json.value.kind # "dict"

NonTransient(did) ==
  IsResponse(did) /\ (did.status_code >= 400 \/ NotJson(did) \/ NotObject(did))

\* C7: a response with status >= 400, a body that is not JSON or a JSON body
\* that is not an object ends the call at that attempt with an HTTPError or a
\* ResponseDecodeError: it is the last attempt and no sleep follows it
\* (every sleep of the call lies before it), whatever max_retries allows and
\* also after earlier attempts that timed out.
C7_NonTransientEndsCall ==
  \A n \in 1..Len(done) :
    NonTransient(done[n]) =>
      /\ n = Len(done)
      /\ Len(sent) = n
      /\ attempt = n
      /\ Len(slept) = n - 1
      /\ pc = "raised"
      /\ result.kind \in {"HTTPError", "ResponseDecodeError"}
      /\ done[n].status_code >= 400
           => result.kind = "HTTPError" /\ result.status_code = done[n].status_code
      /\ (done[n].status_code < 400 /\ NotObject(done[n]))
           => result.kind = "ResponseDecodeError"

\* C7 witness: the first attempt timed out, the second got a status 500, a
\* third was allowed and not made.
C7_Witness ==
  /\ Len(done) = 2
  /\ done[1] = Timeout
  /\ IsResponse(done[2])
  /\ done[2].status_code = 500
  /\ self.max_retries >= 3
  /\ Failed("HTTPError")
  /\ Len(sent) = 2
  /\ Len(slept) = 1

GoodResponse(did) ==
  IsResponse(did) /\ did.status_code < 400
    /\ did.json.raises = {} /\ did.json.value.kind = "dict"

\* C8: the call returns iff an attempt got a response with status < 400 whose
\* body decodes to a JSON object, and it returns that object; a status < 400
\* response whose body is not JSON, or is a JSON array or scalar, gives a
\* ResponseDecodeError.
C8_SuccessIffObject ==
  /\ pc = "returned" <=> \E n \in 1..Len(done) : GoodResponse(done[n])
  /\ pc = "returned" => result = Returned(done[Len(done)].json.value)
  /\ \A n \in 1..Len(done) :
       (IsResponse(done[n]) /\ done[n].status_code < 400
          /\ (NotJson(done[n]) \/ NotObject(done[n])))
         => Failed("ResponseDecodeError")

\* C9 as stated: the delay after attempt 1 is 0.25 s, after attempt 2 0.5 s,
\* after attempt 5 the cap of 5.0 s.
C9_DelaysAsStated ==
  /\ Len(slept) >= 1 => slept[1] = 25
  /\ Len(slept) >= 2 => slept[2] = 50
  /\ Len(slept) >= 5 => slept[5] = 500

\* C9 amended: the delay after attempt 1 is 0.25 s, after attempt 2 0.5 s,
\* after attempt 5 4.0 s, still under the cap; the cap applies from attempt 6
\* on, whose delay is 5.0 s and not 8.0 s.
C9_Delays ==
  /\ Len(slept) >= 1 => slept[1] = 25
  /\ Len(slept) >= 2 => slept[2] = 50
  /\ Len(slept) >= 5 => slept[5] = 400
  /\ \A k \in 6..Len(slept) : slept[k] = 500

\* C9 witness: a call that slept after each of its first six attempts.
C9_Witness ==
  /\ Len(slept) = 6
  /\ slept[5] = 400
  /\ slept[6] = 500
  /\ attempt = 6

\* The keys in the order they are looked up.
C10_Keys == <<"message", "error", "detail", "reason">>

\* C10: the message of an HTTPError raised for a status >= 400 is, when the
\* body decodes to a JSON object, the value of the first of message, error,
\* detail, reason that holds a string (absent keys and values that are no
\* strings are passed over); otherwise the first 200 characters of the
\* trimmed body when that is not empty; otherwise the generic message.
\* Status 500 with body {"error":"internal"} gives status 500 and message
\* "internal".
C10_ErrorMessage ==
  \A n \in 1..Len(done) :
    (IsResponse(done[n]) /\ done[n].status_code >= 400) =>
      LET body == done[n]
          is_object == body.json.raises = {} /\ body.json.value.kind = "dict"
          strings == IF is_object
                       THEN {i \in 1..Len(C10_Keys) :
                               /\ C10_Keys[i] \in DOMAIN body.json.value.items
                               /\ body.json.value.items[C10_Keys[i]].t = "str"}
                       ELSE {}
          first == CHOOSE i \in strings : \A j \in strings : i <= j
          trimmed == strip(body.text)
      IN /\ Failed("HTTPError")
         /\ result.status_code = body.status_code
         /\ IF strings # {}
              THEN result.message = body.json.value.items[C10_Keys[first]].s
            ELSE IF trimmed # <<>>
              THEN /\ Len(result.message) = (IF Len(trimmed) < 200 THEN Len(trimmed) ELSE 200)
                   /\ \A i \in 1..Len(result.message) : result.message[i] = trimmed[i]
            ELSE result.message =
                   <<"P", "h", "o", "s", "p", "h", "o", "b", "o", "t", " ", "A", "P",
                     "I", " ", "r", "e", "t", "u", "r", "n", "e", "d", " ", "a", "n",
                     " ", "e", "r", "r", "o", "r", ".">>
         /\ (body.status_code = 500 /\ body.text = TextErrorInternal)
              => /\ result.status_code = 500
                 /\ result.message = <<"i", "n", "t", "e", "r", "n", "a", "l">>

\* C10 witness: status 500 with body {"error":"internal"}.
C10_Witness ==
  /\ Failed("HTTPError")
  /\ result.status_code = 500
  /\ done[Len(done)].text = TextErrorInternal
  /\ result.message = <<"i", "n", "t", "e", "r", "n", "a", "l">>

C11_Max(a, b) == IF a >= b THEN a ELSE b

\* C11: the attempts allowed are max(1, m) for every max_retries argument m,
\* also 0 and negative ones: no call makes more attempts than that, and every
\* call that reaches _request makes at least one.
C11_AttemptsClamped ==
  /\ self.max_retries = C11_Max(1, max_retries_arg)
  /\ attempt <= C11_Max(1, max_retries_arg)
  /\ Len(sent) <= C11_Max(1, max_retries_arg)
  /\ request # None => attempt >= 1 /\ Len(sent) >= 1

\* C11 witness: max_retries = 0 was given; the call made one attempt, which
\* timed out, and ended.
C11_Witness ==
  /\ max_retries_arg = 0
  /\ done = <<Timeout>>
  /\ Len(sent) = 1
  /\ Failed("TimeoutError")

\* C12: in a scoped use of the client the session is closed exactly once,
\* when the with block is left, however it is left (at its end, by a return,
\* by a ValidationError, HTTPError, TimeoutError, ResponseDecodeError or
\* another exception), and never more than once.
C12_ClosedOnceOnExit ==
  /\ closes <= 1
  /\ scope = "exited" => closes = 1
  /\ scope \in {"none", "entered"} => closes = 0

\* C12 witness: the block was left by the HTTPError of a call; the session is
\* closed, once.
C12_Witness ==
  /\ scope = "exited"
  /\ Failed("HTTPError")
  /\ closes = 1

\* C13 as stated: the raw body carried by an HTTPError is at most 200
\* characters long, however long the response body was.
C13_SnippetCapped ==
  (Failed("HTTPError") /\ result.response_body # None)
    => Len(result.response_body) <= 200

C13_NoStringKey(body) ==
  \/ body.json.raises # {}
  \/ body.json.value.kind # "dict"
  \/ \A key \in {"message", "error", "detail", "reason"} :
       key \in DOMAIN body.json.value.items => body.json.value.items[key].t # "str"

\* C13, amended: an HTTPError raised for a response with status >= 400
\* carries the whole body of that response as response_body, of whatever
\* length; the 200 character cap applies to its message alone, and only when
\* the message is taken from the raw body (no string under message, error,
\* detail or reason). An HTTPError raised without a response carries no body.
C13_BodyWholeMessageCapped ==
  Failed("HTTPError") =>
    LET last == done[Len(done)]
    IN IF IsResponse(last) /\ last.status_code >= 400
         THEN /\ result.response_body = last.text
              /\ Len(result.response_body) = Len(last.text)
              /\ C13_NoStringKey(last) => Len(result.message) <= 200
         ELSE result.response_body = None

\* C13 witness: an error response with a body of 203 characters; the message
\* has 200 of them, the carried body all.
C13_Witness ==
  /\ Failed("HTTPError")
  /\ IsResponse(done[Len(done)])
  /\ done[Len(done)].text = TextLong
  /\ Len(result.response_body) = 203
  /\ Len(result.message) = 200

\* C14: a call that fails ends in one of ValidationError, HTTPError,
\* TimeoutError, ResponseDecodeError or a transport error, and an HTTPError
\* is raised only when the last attempt received a response with status >=
\* 400, whose status code it carries.
C14_ClosedKinds ==
  pc = "raised" =>
    /\ result.kind \in {"ValidationError", "HTTPError", "TimeoutError",
                        "ResponseDecodeError", "TransportError"}
    /\ result.kind = "HTTPError" =>
         /\ IsResponse(done[Len(done)])
         /\ done[Len(done)].status_code >= 400
         /\ result.status_code = done[Len(done)].status_code
         /\ result.status_code >= 400

\* How a call ends after an attempt with this outcome, whichever operation
\* made it: "next" when another attempt follows.
C15_Ending(outcome, n, max_attempts) ==
  IF outcome = Timeout THEN (IF n < max_attempts THEN "next" ELSE "TimeoutError")
  ELSE IF ~IsResponse(outcome) THEN "HTTPError"
  ELSE IF outcome.status_code >= 400 THEN "HTTPError"
  ELSE IF "RequestException" \in outcome.json.raises THEN "HTTPError"
  ELSE IF outcome.json.raises # {} THEN "ResponseDecodeError"
  ELSE IF outcome.json.value.kind # "dict" THEN "ResponseDecodeError"
  ELSE "returned"

\* C15: move_init never fails validation and sends no payload; and, for
\* move_init and for a move_absolute call that passed validation alike, the
\* number of attempts, the number of backoff sleeps and the way the call ends
\* are determined by the outcomes of the attempts and max_retries alone. A
\* first attempt that succeeds is the only request sent.
C15_MoveInitSameRetryRules ==
  /\ (call # None /\ call.op = "move_init") =>
       /\ request # None
       /\ request.json = None
       /\ \A i \in 1..Len(sent) : sent[i].json = None
       /\ ~Failed("ValidationError")
  /\ (call # None /\ request # None) =>
       LET n == Len(done)
           ended == pc \in {"returned", "raised"}
       IN /\ Len(sent) = attempt
          /\ attempt = (IF pc = "request" THEN n + 1 ELSE n)
          /\ Len(slept) = (IF ended THEN n - 1 ELSE n)
          /\ \A i \in 1..n :
               C15_Ending(done[i], i, C11_Max(1, max_retries_arg)) =
                 (IF i = n /\ ended THEN result.kind ELSE "next")
          /\ (n >= 1 /\ GoodResponse(done[1])) => (pc = "returned" /\ Len(sent) = 1)

\* C15 witness: move_init on a client whose envelope rejects every pose; the
\* first attempt timed out, the second succeeded, after one sleep.
C15_Witness ==
  /\ call # None /\ call.op = "move_init"
  /\ self._limits = InvertedPoseLimits
  /\ Len(done) = 2 /\ done[1] = Timeout /\ GoodResponse(done[2])
  /\ pc = "returned"
  /\ Len(sent) = 2 /\ Len(slept) = 1

\* C16: every envelope a move_absolute call is validated against has min <=
\* max in each range it populates, the six pose ranges and the grip range.
C16_EnvelopeOrdered ==
  InMoveAbsolute =>
    \A axis \in {"x_cm", "y_cm", "z_cm", "roll_deg", "pitch_deg", "yaw_deg", "grip"} :
      ActiveLimits[axis] # None => ActiveLimits[axis][1] <= ActiveLimits[axis][2]

C17_Order == <<"x_cm", "y_cm", "z_cm", "roll_deg", "pitch_deg", "yaw_deg", "grip">>

C17_Invalid ==
  {i \in 1..7 :
     IF i <= 6 THEN ~PoseFieldValid(call.cmd[C17_Order[i]], ActiveLimits[C17_Order[i]])
     ELSE ~GripValid(call.cmd.grip, ActiveLimits.grip)}

\* C17: the fields of a command are checked in the order x_cm, y_cm, z_cm,
\* roll_deg, pitch_deg, yaw_deg, grip. When some are invalid the call raises
\* the ValidationError of the earliest invalid one, no payload is built and
\* nothing is sent; when all seven are valid the payload has exactly these
\* seven fields.
C17_FirstFailingField ==
  InMoveAbsolute =>
    IF C17_Invalid # {}
      THEN /\ Failed("ValidationError")
           /\ \E i \in C17_Invalid :
                /\ \A j \in C17_Invalid : i <= j
                /\ result.field = C17_Order[i]
           /\ request = None
           /\ sent = <<>>
      ELSE /\ request # None
           /\ DOMAIN request.json = {C17_Order[i] : i \in 1..7}
           /\ Cardinality(DOMAIN request.json) = 7

\* C17 witness: y_cm, roll_deg and grip are invalid; the error names y_cm.
C17_Witness ==
  /\ InMoveAbsolute
  /\ C17_Invalid = {2, 4, 7}
  /\ Failed("ValidationError")
  /\ result.field = "y_cm"
  /\ request = None

\* Lengths of time in hundredths of a second: min(0.25 * 2^(k-1), 5.0) s.
C18_Delay(k) == IF 25 * 2^(k - 1) <= 500 THEN 25 * 2^(k - 1) ELSE 500

C18_SleepsPlaced ==
  /\ Len(slept) <= Len(done)
  /\ pc \in {"returned", "raised"} /\ request # None => Len(slept) = Len(done) - 1
  /\ \A k \in 1..Len(slept) :
       /\ done[k] = Timeout
       /\ k < self.max_retries
       /\ k < Len(sent) \/ (pc = "sleep" /\ k = Len(sent))
       /\ slept[k] = C18_Delay(k)
       /\ slept[k] <= 500
       /\ k > 1 => slept[k - 1] <= slept[k]

C18_SleepStep ==
  /\ (slept' # slept /\ slept' # <<>>) =>
       /\ pc = "request" /\ pc' = "sleep"
       /\ done' = Append(done, Timeout)
       /\ Len(slept') = Len(slept) + 1
       /\ Len(slept') = attempt
  /\ pc = "sleep" =>
       /\ pc' = "request"
       /\ slept' = slept
       /\ attempt' = attempt + 1
       /\ sent' = Append(sent, request)

\* C18: a backoff sleep is made only in the step that handles the timeout of
\* attempt k, with k < max_retries, and the step after it sends attempt k + 1
\* of the same call: never before the first attempt, never after the last
\* one, never after a response or a failure that ends the call. The k-th
\* sleep of a call lasts min(0.25 * 2^(k-1), 5.0) seconds, so the delays of a
\* call never decrease and never exceed 5.0 seconds.
C18_SleepBetweenAttempts == [](C18_SleepsPlaced) /\ [][C18_SleepStep]_vars

\* C18 witness: six timeouts, six sleeps, the last at the cap, and attempt 7
\* on its way.
C18_Witness ==
  /\ slept = <<25, 50, 100, 200, 400, 500>>
  /\ Len(done) = 6
  /\ Len(sent) = 7
  /\ pc = "request"

\* C19: every attempt of a move_absolute call, the first and each retry,
\* sends the same request: POST to <base_url>/move/absolute with the same
\* payload, whose pose fields are the given numbers as floats and whose grip
\* is the given integer.
C19_SamePayloadEveryAttempt ==
  (InMoveAbsolute /\ request # None) =>
    /\ \A i \in 1..Len(sent) :
         /\ sent[i] = sent[1]
         /\ sent[i].method = "POST"
         /\ sent[i].url = <<"http://localhost", "/", "move", "/", "absolute">>
         /\ \A axis \in {"x_cm", "y_cm", "z_cm", "roll_deg", "pitch_deg", "yaw_deg"} :
              /\ sent[i].json[axis].t = "float"
              /\ sent[i].json[axis].n = call.cmd[axis].n
         /\ sent[i].json.grip = call.cmd.grip
         /\ sent[i].json.grip.t = "int"
    /\ Len(sent) >= 1

\* C19 witness: the third attempt of a call whose x_cm was given as an
\* integer; all three requests carry it as a float.
C19_Witness ==
  /\ InMoveAbsolute
  /\ Len(sent) = 3
  /\ call.cmd.x_cm.t = "int"
  /\ sent[3].json.x_cm = [t |-> "float", n |-> call.cmd.x_cm.n]
  /\ sent[3] = sent[1]

C20_Accepts(cmd, limits) == PoseValid(cmd, limits) /\ GripValid(cmd.grip, limits.grip)

C20_EnvelopeUsed ==
  InMoveAbsolute =>
    /\ call.limits # None => (Failed("ValidationError") <=> ~C20_Accepts(call.cmd, call.limits))
    /\ call.limits = None => (Failed("ValidationError") <=> ~C20_Accepts(call.cmd, self._limits))

C20_ClientUnchanged ==
  /\ self'._limits = self._limits
  /\ self'.base_url = self.base_url
  /\ self'.timeout_sec = self.timeout_sec
  /\ self'.max_retries = self.max_retries

\* C20: a move_absolute call is validated against the envelope given to the
\* call when there is one and against the client's configured envelope when
\* there is none; and no step, a call with an override included, changes the
\* configured envelope, the base URL, the timeout or max_retries, so every
\* call without override is validated against the envelope the client was
\* constructed with.
C20_OverrideOnlyForTheCall == [](C20_EnvelopeUsed) /\ [][C20_ClientUnchanged]_vars

\* C20 witness: the client is configured without pose ranges and the call
\* brings the default envelope, which refuses x_cm = 81 that the configured
\* envelope would accept; the configured envelope is still in place.
C20_Witness ==
  /\ InMoveAbsolute
  /\ self._limits = OpenLimits
  /\ call.limits = MovementLimits
  /\ call.cmd = [QuickStart EXCEPT !.x_cm = Float(81)]
  /\ C20_Accepts(call.cmd, self._limits)
  /\ Failed("ValidationError")

C21_Counted ==
  /\ attempt <= self.max_retries
  /\ Len(sent) = attempt
  /\ pc = "returned" => result.kind = "returned"
  /\ pc = "raised" => result.kind \in {"ValidationError", "HTTPError", "TimeoutError",
                                        "ResponseDecodeError"}

C21_AttemptStep ==
  /\ (sent' # sent /\ sent' # <<>>) =>
       /\ Len(sent') = Len(sent) + 1
       /\ attempt' = attempt + 1
  /\ attempt' # attempt => (attempt' = attempt + 1 \/ attempt' = 0)
  /\ pc \in {"returned", "raised"} => (pc' = "idle" /\ attempt' = 0)

\* C21: when every attempt in flight comes to an end and every sleep
\* returns, each move_init / move_absolute call ends, either returning the
\* decoded object or raising one of the client's exceptions, and not both;
\* each request sent raises the attempt counter by one, and the counter
\* never exceeds max_retries.
C21_CallTerminates ==
  /\ [](C21_Counted)
  /\ [][C21_AttemptStep]_vars
  /\ (call # None) ~> (pc \in {"returned", "raised"})

\* C21 witness: a call that ended in TimeoutError after all seven attempts.
C21_Witness ==
  /\ self.max_retries = 7
  /\ attempt = 7
  /\ Len(done) = 7
  /\ Failed("TimeoutError")

\* What a call with these locals has to send, from its own arguments.
C22_OwnPayload(cs) ==
  IF cs.call.op = "move_init" THEN None
  ELSE [axis \in {"x_cm", "y_cm", "z_cm", "roll_deg", "pitch_deg", "yaw_deg", "grip"} |->
          IF axis = "grip" THEN cs.call.cmd.grip
          ELSE [t |-> "float", n |-> cs.call.cmd[axis].n]]

C22_OwnCall(cs) ==
  (cs.call # None /\ cs.request # None) =>
    LET n == Len(cs.done)
        ended == cs.pc \in {"returned", "raised"}
    IN /\ cs.attempt <= self.max_retries
       /\ Len(cs.sent) = cs.attempt
       /\ cs.attempt = (IF cs.pc = "request" THEN n + 1 ELSE n)
       /\ \A i \in 1..Len(cs.sent) : cs.sent[i].json = C22_OwnPayload(cs)
       /\ \A i \in 1..n :
            C15_Ending(cs.done[i], i, self.max_retries) =
              (IF i = n /\ ended THEN cs.result.kind ELSE "next")
       /\ (ended /\ cs.result.kind = "TimeoutError") => cs.attempt = self.max_retries

C22_OthersUntouched ==
  \/ suspended' = suspended
  \/ suspended' = running /\ running' = suspended

\* C22: with two calls on one client, their steps interleaved in any order,
\* each call counts its own attempts up to max_retries, sends its own payload
\* in each of them and ends as its own attempt outcomes say; a step of one
\* call changes nothing of the other.
C22_RetryStatePerCall ==
  /\ [](C22_OwnCall(running) /\ C22_OwnCall(suspended))
  /\ [][C22_OthersUntouched]_vars

\* C22 witness: a move_init that failed at its first attempt is suspended
\* beside a move_absolute that is at its third attempt, with its own payload.
C22_Witness ==
  /\ suspended.call # None /\ suspended.call.op = "move_init"
  /\ suspended.pc = "raised" /\ suspended.result.kind = "HTTPError"
  /\ suspended.attempt = 1
  /\ InMoveAbsolute
  /\ pc = "request"
  /\ attempt = 3
  /\ done = <<Timeout, Timeout>>
  /\ sent[3].json.x_cm = Float(80)

\* C23: the while condition attempt < self.max_retries holds whenever it is
\* evaluated, at the start of a call and after each sleep, so the loop is
\* left by a return or a raise inside it only: no pass falls out of the try
\* statement without a sleep due, and the TimeoutError raised after the loop
\* is never the result of a call.
C23_TrailingRaiseUnreachable ==
  /\ pc \in {"idle", "sleep"} => attempt < self.max_retries
  /\ pc # "loop"
  /\ self.max_retries >= 1
  /\ Failed("TimeoutError") =>
       /\ result = TimeoutError("timed out repeatedly")
       /\ result # TimeoutError("after maximum retries")
       /\ done[Len(done)] = Timeout
       /\ attempt = self.max_retries

\* C23 witness: max_retries=-1, taken as 1; the one attempt times out and the
\* call ends by the raise inside the loop.
C23_Witness ==
  /\ max_retries_arg = -1
  /\ self.max_retries = 1
  /\ done = <<Timeout>>
  /\ pc = "raised"
  /\ result = TimeoutError("timed out repeatedly")

====
